---- MODULE Spec2Model ----
(***************************************************************************)
(* GraphicsManager of the 2d testbed (examples2d/nphysics_testbed2d,       *)
(* engine.rs): the registry rb2sn of scene nodes per rigid body, the color *)
(* cache obj2color, the seeded generator rand, and the operations add,     *)
(* clear, draw, set_color, color_for_object and body_to_scene_node.        *)
(*                                                                         *)
(* A rigid body is an Rc<RefCell<RigidBody>>; the manager keys both maps   *)
(* by the address of the RefCell.  The model keeps the bodies of a run in  *)
(* `bodies`, indexed by a serial number that is never reused, and gives    *)
(* every live body an address out of Addrs, chosen by the allocator.       *)
(***************************************************************************)
EXTENDS Integers, Sequences, FiniteSets, TLC

\* ------------------------------------------------------------ bounds ----
MaxBodies   == 2      \* bodies created during one run
MaxChildren == 2      \* children of a generated Compound
MaxMargin   == 1      \* margins of the generated bodies

BodyIds == 1..MaxBodies

\* The allocator's pool: two addresses, so that two bodies can be live at
\* once and a freed address can be handed out again.
Addrs == {1, 2}

\* Option<T>: None is the empty sequence, Some(v) the sequence of v alone.
None    == <<>>
Some(v) == <<v>>

\* --------------------------------------------------------------- Iso2 ----
\* Iso2<f32> restricted to quarter turns and integer translations: a
\* rotation count (mod 4) and a translation vector.
One == [rot |-> 0, x |-> 0, y |-> 0]

RotX(r, x, y) == CASE r = 0 -> x  [] r = 1 -> 0 - y [] r = 2 -> 0 - x [] OTHER -> y
RotY(r, x, y) == CASE r = 0 -> y  [] r = 1 -> x     [] r = 2 -> 0 - y [] OTHER -> 0 - x

\* delta * t: translation a.t + a.R * b.t, rotation a.R * b.R.
IsoMul(a, b) ==
    [rot |-> (a.rot + b.rot) % 4,
     x   |-> a.x + RotX(a.rot, b.x, b.y),
     y   |-> a.y + RotY(a.rot, b.x, b.y)]

T1 == [rot |-> 1, x |-> 1, y |-> 0]
T2 == [rot |-> 0, x |-> 0, y |-> 2]
Transforms == {One, T1, T2}

\* ------------------------------------------------------------- shapes ----
\* The implementors of Shape2 the manager is handed, by type.
Plane2          == [kind |-> "Plane2"]
Ball2(r)        == [kind |-> "Ball2", radius |-> r]
Cuboid2(hx, hy) == [kind |-> "Cuboid2", x |-> hx, y |-> hy]
Cylinder2       == [kind |-> "Cylinder2"]
Cone2           == [kind |-> "Cone2"]
Mesh2(vs, is)   == [kind |-> "Mesh2", vertices |-> vs, indices |-> is]
Compound2(gs)   == [kind |-> "Compound2", geoms |-> gs]

Tri == Mesh2(<<0, 1, 2>>, <<0, 1, 1, 2, 2, 0>>)

Leaves == {Plane2, Ball2(1), Cuboid2(2, 1), Tri, Cylinder2, Cone2}

\* ---------------------------------------------------------- XorShiftRng ----
\* A u32 is a pair <<high half, low half>> of 16-bit numbers.
W16 == 65536

RECURSIVE BitXor(_, _, _)
BitXor(a, b, n) ==
    IF n = 0 THEN 0
    ELSE ((a + b) % 2) + 2 * BitXor(a \div 2, b \div 2, n - 1)

Xor32(a, b) == <<BitXor(a[1], b[1], 16), BitXor(a[2], b[2], 16)>>
Shl11(a)    == <<((a[1] % 32) * 2048 + a[2] \div 32) % W16, (a[2] % 32) * 2048>>
Shr19(a)    == <<0, a[1] \div 8>>
Shr8(a)     == <<a[1] \div 256, (a[1] % 256) * 256 + a[2] \div 256>>

\* SeedableRng::from_seed([0, 1, 2, 3])
from_seed == [x |-> <<0, 0>>, y |-> <<0, 1>>, z |-> <<0, 2>>, w |-> <<0, 3>>]

\* next_u32: t = x ^ (x << 11); w' = w ^ (w >> 19) ^ (t ^ (t >> 8)).  The
\* result is the generator after the call; the word returned is its w.
next_w(w, t)  == Xor32(Xor32(w, Shr19(w)), Xor32(t, Shr8(t)))
next_u32(rng) ==
    [x |-> rng.y, y |-> rng.z, z |-> rng.w,
     w |-> next_w(rng.w, Xor32(rng.x, Shl11(rng.x)))]

\* gen_range(0u, 256) on a 64-bit uint: two words make the sample v, which
\* is redrawn while v >= 2^64 - 256, and the result is v % 256.
RECURSIVE gen_range(_)
sample(hi, lo) ==
    IF hi.w = <<W16 - 1, W16 - 1>> /\ lo.w[1] = W16 - 1 /\ lo.w[2] >= W16 - 256
    THEN gen_range(lo)
    ELSE [rng |-> lo, val |-> lo.w[2] % 256]
next_u64(hi)   == sample(hi, next_u32(hi))
gen_range(rng) == next_u64(next_u32(rng))

\* -------------------------------------------------------------- bodies ----
\* bodies[b] is [st |-> "unborn"], [st |-> "freed"], or a live RigidBody in
\* its Rc box: addr is the address of the RefCell, ext says that a strong
\* reference is held outside the manager (by the world or the caller).
Unborn == [st |-> "unborn"]
Freed  == [st |-> "freed"]

Live(bs, b) == bs[b].st = "live"
Held(bs, b) == Live(bs, b) /\ bs[b].ext

\* The Rc handed to the manager: what it can read through it.
Rc(bs, b) ==
    [id |-> b, addr |-> bs[b].addr, geom |-> bs[b].geom, margin |-> bs[b].margin]

FreeAddrs(bs) == Addrs \ {bs[b].addr : b \in {c \in BodyIds : Live(bs, c)}}

\* nodes that hold no reference to their body
Refs_none(reg, b) == FALSE

\* A node of the registry holds a clone of the Rc of body b.
Refs(reg, b) == \E k \in DOMAIN reg : \E i \in 1..Len(reg[k]) : reg[k][i].body = b

\* Dropping the last strong reference frees the body and its address.
Reap(bs, reg) ==
    [b \in BodyIds |->
        IF Live(bs, b) /\ ~bs[b].ext /\ ~Refs(reg, b) THEN Freed ELSE bs[b]]

\* HashMap::insert
Put(f, k, v) == [x \in DOMAIN f \cup {k} |-> IF x = k THEN v ELSE f[x]]

\* ------------------------------------------------------ GraphicsManager ----
\* self is [rand, rb2sn, obj2color]; body is an Rc as above.
new == [rand |-> from_seed, rb2sn |-> <<>>, obj2color |-> <<>>]

\* Pnt3::new(gen_range as u8, gen_range as u8, gen_range as u8): n bytes
\* drawn one after the other; the result holds the generator afterwards.
RECURSIVE gen_bytes(_, _)
gen_cons(d, rest) == [rng |-> rest.rng, val |-> <<d.val>> \o rest.val]
gen_next(d, n)    == gen_cons(d, gen_bytes(d.rng, n - 1))
gen_bytes(rng, n) ==
    IF n = 0 THEN [rng |-> rng, val |-> <<>>] ELSE gen_next(gen_range(rng), n)

\* self.obj2color.insert(key, color); color
color_insert(self, key, c) ==
    [self  |-> [self EXCEPT !.rand = c.rng, !.obj2color = Put(@, key, c.val)],
     color |-> c.val]

\* color_for_object that draws a color on every call
color_for_object_fresh(self, body) ==
    color_insert(self, body.addr, gen_bytes(self.rand, 3))

\* color_for_object that takes four numbers from the generator on a miss
take3(c) == [rng |-> c.rng, val |-> SubSeq(c.val, 1, 3)]
color_for_object_four(self, body) ==
    IF body.addr \in DOMAIN self.obj2color
    THEN [self |-> self, color |-> self.obj2color[body.addr]]
    ELSE color_insert(self, body.addr, take3(gen_bytes(self.rand, 4)))

color_for_object(self, body) ==
    IF body.addr \in DOMAIN self.obj2color
    THEN [self |-> self, color |-> self.obj2color[body.addr]]
    ELSE color_insert(self, body.addr, gen_bytes(self.rand, 3))

\* set_color that keeps a color the body already has
set_color_keep(self, body, color) ==
    IF body.addr \in DOMAIN self.obj2color THEN self
    ELSE [self EXCEPT !.obj2color = Put(@, body.addr, color)]

\* set_color that also repaints the nodes stored under the key
Repaint(ns, color) == [i \in 1..Len(ns) |-> [ns[i] EXCEPT !.color = color]]
set_color_repaint(self, body, color) ==
    [self EXCEPT !.obj2color = Put(@, body.addr, color),
                 !.rb2sn = [k \in DOMAIN @ |->
                               IF k = body.addr THEN Repaint(@[k], color) ELSE @[k]]]

set_color(self, body, color) ==
    [self EXCEPT !.obj2color = Put(@, body.addr, color)]

\* The scene nodes, as their constructors are called.
BallNode(body, delta, radius, color) ==
    [kind |-> "BallNode", body |-> body.id, delta |-> delta, dims |-> <<radius>>,
     color |-> color]
BoxNode(body, delta, rx, ry, color) ==
    [kind |-> "BoxNode", body |-> body.id, delta |-> delta, dims |-> <<rx, ry>>,
     color |-> color]
LinesNode(body, delta, vs, is, color) ==
    [kind |-> "LinesNode", body |-> body.id, delta |-> delta, dims |-> <<vs, is>>,
     color |-> color]

\* out.push(node), with c the result of color_for_object
push(c, out, node) == [self |-> c.self, out |-> Append(out, node), ok |-> TRUE]

add_plane(self, body, geom, out) ==
    [self |-> self, out |-> out, ok |-> TRUE]

\* a Ball node of the nominal radius, without the margin
ball_of_nominal(c, body, delta, geom, out) ==
    push(c, out, BallNode(body, delta, geom.radius, c.color))

ball_of(c, body, delta, geom, out) ==
    push(c, out, BallNode(body, delta, geom.radius + body.margin, c.color))
add_ball(self, body, delta, geom, out) ==
    ball_of(color_for_object(self, body), body, delta, geom, out)

lines_of(c, body, delta, geom, out) ==
    push(c, out, LinesNode(body, delta, geom.vertices, geom.indices, c.color))
add_lines(self, body, delta, geom, out) ==
    lines_of(color_for_object(self, body), body, delta, geom, out)

box_of(c, body, delta, geom, out) ==
    push(c, out, BoxNode(body, delta, geom.x + body.margin, geom.y + body.margin,
                         c.color))
\* add_box that draws a color of its own for every Box
add_box_fresh(self, body, delta, geom, out) ==
    box_of(color_for_object_fresh(self, body), body, delta, geom, out)

add_box(self, body, delta, geom, out) ==
    box_of(color_for_object(self, body), body, delta, geom, out)

\* add_geom returns the manager, the output vector and ok = FALSE when it
\* panicked; a panic unwinds through the enclosing loops at once.
RECURSIVE add_geom(_, _, _, _, _)
RECURSIVE add_geom_each(_, _, _, _, _, _)
RECURSIVE add_geom_rest(_, _, _, _, _)

\* an else branch that skips the shape
add_geom_skip(self, body, delta, geom, out) ==
    [self |-> self, out |-> out, ok |-> TRUE]

\* else { panic!("Not yet implemented.") }
add_geom_else(self, body, delta, geom, out) ==
    [self |-> self, out |-> out, ok |-> FALSE]

add_geom(self, body, delta, geom, out) ==
    CASE geom.kind = "Plane2"    -> add_plane(self, body, geom, out)
      [] geom.kind = "Ball2"     -> add_ball(self, body, delta, geom, out)
      [] geom.kind = "Cuboid2"   -> add_box(self, body, delta, geom, out)
      [] geom.kind = "Compound2" -> add_geom_each(self, body, delta, geom.geoms, 1, out)
      [] geom.kind = "Mesh2"     -> add_lines(self, body, delta, geom, out)
      [] OTHER                   -> add_geom_else(self, body, delta, geom, out)

\* the loop with the product taken as t * delta
add_geom_each_swapped(self, body, delta, geoms, i, out) ==
    IF i > Len(geoms) THEN [self |-> self, out |-> out, ok |-> TRUE]
    ELSE add_geom_rest(add_geom(self, body, IsoMul(geoms[i][1], delta), geoms[i][2], out),
                       body, delta, geoms, i)

\* for &(t, ref s) in c.geoms().iter() { self.add_geom(body, delta * t, s, out) }
\* from the i-th child on; r is what the call for the i-th child returned.
add_geom_each(self, body, delta, geoms, i, out) ==
    IF i > Len(geoms) THEN [self |-> self, out |-> out, ok |-> TRUE]
    ELSE add_geom_rest(add_geom(self, body, IsoMul(delta, geoms[i][1]), geoms[i][2], out),
                       body, delta, geoms, i)

add_geom_rest(r, body, delta, geoms, i) ==
    IF r.ok THEN add_geom_each(r.self, body, delta, geoms, i + 1, r.out) ELSE r

\* an insert that extends the list already stored for the body
insert_merge(r, body) ==
    IF r.ok
    THEN [self |-> [r.self EXCEPT !.rb2sn =
                       Put(@, body.addr,
                           (IF body.addr \in DOMAIN @ THEN @[body.addr] ELSE <<>>) \o r.out)],
          ok |-> TRUE]
    ELSE [self |-> r.self, ok |-> FALSE]

\* an insert that also runs when add_geom panicked
\* an insert that stores nothing for an empty list of nodes
insert_nonempty(r, body) ==
    IF r.ok /\ r.out # <<>>
    THEN [self |-> [r.self EXCEPT !.rb2sn = Put(@, body.addr, r.out)], ok |-> TRUE]
    ELSE [self |-> r.self, ok |-> r.ok]

insert_always(r, body) ==
    [self |-> [r.self EXCEPT !.rb2sn = Put(@, body.addr, r.out)], ok |-> r.ok]

\* self.rb2sn.insert(key, nodes), reached when add_geom (result r) returned
insert_nodes(r, body) ==
    IF r.ok
    THEN [self |-> [r.self EXCEPT !.rb2sn = Put(@, body.addr, r.out)], ok |-> TRUE]
    ELSE [self |-> r.self, ok |-> FALSE]

add(self, body) == insert_nodes(add_geom(self, body, One, body.geom, <<>>), body)

\* clear that empties the color cache along with the registry
clear_all(self) == [self EXCEPT !.rb2sn = <<>>, !.obj2color = <<>>]

\* clear that empties the color cache instead of the registry
clear_colors(self) == [self EXCEPT !.obj2color = <<>>]

clear(self) == [self EXCEPT !.rb2sn = <<>>]

\* a lookup that reports an empty entry as absent
body_to_scene_node_nonempty(self, rb) ==
    IF rb.addr \in DOMAIN self.rb2sn /\ self.rb2sn[rb.addr] # <<>>
    THEN Some(self.rb2sn[rb.addr]) ELSE None

body_to_scene_node(self, rb) ==
    IF rb.addr \in DOMAIN self.rb2sn THEN Some(self.rb2sn[rb.addr]) ELSE None

RECURSIVE Pass(_, _, _, _)

\* a pass that leaves out the last node of every list
PassShort(reg, order, what, i) ==
    IF i > Len(order) THEN <<>>
    ELSE [j \in 1..(Len(reg[order[i]]) - 1) |->
             [ev |-> what, key |-> order[i], idx |-> j, node |-> reg[order[i]][j]]]
         \o Pass(reg, order, what, i + 1)

\* One pass of `for (_, ns) in self.rb2sn.iter_mut() { for n in ns.iter_mut() .. }`
\* calling `what` on each node; order is the iteration order of the HashMap.
Pass(reg, order, what, i) ==
    IF i > Len(order) THEN <<>>
    ELSE [j \in 1..Len(reg[order[i]]) |->
             [ev |-> what, key |-> order[i], idx |-> j, node |-> reg[order[i]][j]]]
         \o Pass(reg, order, what, i + 1)

\* draw with one loop that updates and draws each node in turn
Zip(us, ds) ==
    [i \in 1..(2 * Len(us)) |-> IF i % 2 = 1 THEN us[(i + 1) \div 2] ELSE ds[i \div 2]]
draw_interleaved(self, order) ==
    <<[ev |-> "activate_scene"]>>
    \o Zip(Pass(self.rb2sn, order, "update", 1), Pass(self.rb2sn, order, "draw", 1))
    \o <<[ev |-> "activate_ui"]>>

\* draw: the calls it makes on the camera and on the nodes, in order.
draw(self, order) ==
    <<[ev |-> "activate_scene"]>>
    \o Pass(self.rb2sn, order, "update", 1)
    \o Pass(self.rb2sn, order, "draw", 1)
    \o <<[ev |-> "activate_ui"]>>

\* ------------------------------------------------------- the test runs ----
\* What the runs hand to the manager.
Pair == Compound2(<< <<One, Ball2(1)>>, <<T1, Cuboid2(2, 1)>> >>)
Bad  == Compound2(<< <<T2, Ball2(1)>>, <<T1, Cylinder2>> >>)

BodyKinds ==
    {[geom |-> Plane2, margin |-> 0], [geom |-> Pair, margin |-> 1],
     [geom |-> Bad, margin |-> 0]}

Palette == {<<255, 0, 0>>}

Inner ==
    {Compound2(<<>>),
     Compound2(<< <<T1, Plane2>> >>),
     Compound2(<< <<T2, Ball2(1)>>, <<One, Plane2>>, <<T1, Tri>> >>),
     Compound2(<< <<T1, Cuboid2(1, 2)>>, <<T2, Cone2>> >>)}

Children  == {T1, T2} \X ((Leaves \ {Cone2, Tri}) \cup Inner)
GenShapes ==
    Leaves \cup {Pair, Bad}
    \cup {Compound2(gs) : gs \in UNION {[1..n -> Children] : n \in 0..MaxChildren}}

RECURSIVE Perms(_)
Perms(S) ==
    IF S = {} THEN {<<>>}
    ELSE UNION {{<<k>> \o p : p \in Perms(S \ {k})} : k \in S}

\* ---------------------------------------------------------------- state ----
VARIABLES
    bodies,      \* the rigid bodies of the run
    rand,        \* GraphicsManager.rand
    rb2sn,       \* GraphicsManager.rb2sn
    obj2color,   \* GraphicsManager.obj2color
    last,        \* the last call and what it returned
    registered,  \* history: the live bodies an add has completed for
    overridden,  \* history: the color of the latest set_color of a live body
    twin         \* a second, independent run given the same calls

vars == <<bodies, rand, rb2sn, obj2color, last, registered, overridden, twin>>

Self  == [rand |-> rand, rb2sn |-> rb2sn, obj2color |-> obj2color]
World ==
    [bodies |-> bodies, gm |-> Self, last |-> last, registered |-> registered,
     overridden |-> overridden]

NoCall ==
    [op |-> "new", b |-> 0, ok |-> TRUE, color |-> None, nodes |-> None,
     events |-> <<>>, again |-> FALSE, hit |-> FALSE]
Call(op, b) == [NoCall EXCEPT !.op = op, !.b = b]

InitWorld ==
    [bodies |-> [b \in BodyIds |-> Unborn], gm |-> new, last |-> NoCall,
     registered |-> {}, overridden |-> [b \in BodyIds |-> None]]

\* A panic ends the run.
Halted(w) == ~w.last.ok

\* The histories forget the bodies that were freed.
Forget(w) ==
    [w EXCEPT !.registered = {b \in @ : Live(w.bodies, b)},
              !.overridden = [b \in BodyIds |-> IF Live(w.bodies, b) THEN @[b] ELSE None]]

\* ---------------------------------------------------------------- steps ----
\* Each step maps a world to the world after the call.
CanNewBody(w, b, addr) ==
    /\ ~Halted(w)
    /\ w.bodies[b] = Unborn
    /\ \A c \in BodyIds : c < b => w.bodies[c] # Unborn
    /\ addr \in FreeAddrs(w.bodies)

StepNewBody(w, b, k, addr) ==
    [w EXCEPT !.bodies[b] = [st |-> "live", addr |-> addr, geom |-> k.geom,
                             margin |-> k.margin, ext |-> TRUE],
              !.last = Call("new_body", b)]

CanCall(w, b) == ~Halted(w) /\ Held(w.bodies, b)

StepDropBody(w, b) ==
    Forget([w EXCEPT !.bodies = Reap([@ EXCEPT ![b].ext = FALSE], w.gm.rb2sn),
                     !.last = Call("drop_body", b)])

AfterAdd(w, b, r) ==
    [w EXCEPT !.gm = r.self,
              !.last = [Call("add", b) EXCEPT !.ok = r.ok, !.again = b \in w.registered],
              !.registered = IF r.ok THEN @ \cup {b} ELSE @]
StepAdd(w, b) == AfterAdd(w, b, add(w.gm, Rc(w.bodies, b)))

AfterClear(w, s) ==
    Forget([w EXCEPT !.gm = s, !.bodies = Reap(@, s.rb2sn), !.last = Call("clear", 0)])
StepClear(w) == AfterClear(w, clear(w.gm))

\* b.update() of a node: it pulls the pose of the body into the rendering
\* state the node owns; body, relative transform, dimensions and color are
\* fixed at creation.
update(n) == n

\* the registry after the update loop of draw
Updated(reg) == [k \in DOMAIN reg |-> [i \in 1..Len(reg[k]) |-> update(reg[k][i])]]

StepDraw(w, order) ==
    [w EXCEPT !.gm.rb2sn = Updated(@),
              !.last = [Call("draw", 0) EXCEPT !.events = draw(w.gm, order)]]

StepSetColor(w, b, color) ==
    [w EXCEPT !.gm = set_color(@, Rc(w.bodies, b), color),
              !.last = [Call("set_color", b) EXCEPT !.color = Some(color)],
              !.overridden[b] = Some(color)]

AfterColorForObject(w, b, r) ==
    [w EXCEPT !.gm = r.self,
              !.last = [Call("color_for_object", b) EXCEPT
                           !.color = Some(r.color),
                           !.hit = w.bodies[b].addr \in DOMAIN w.gm.obj2color]]
StepColorForObject(w, b) ==
    AfterColorForObject(w, b, color_for_object(w.gm, Rc(w.bodies, b)))

StepLookup(w, b) ==
    [w EXCEPT !.last = [Call("body_to_scene_node", b) EXCEPT
                           !.nodes = body_to_scene_node(w.gm, Rc(w.bodies, b))]]

Commit(w) ==
    /\ bodies' = w.bodies
    /\ rand' = w.gm.rand
    /\ rb2sn' = w.gm.rb2sn
    /\ obj2color' = w.gm.obj2color
    /\ last' = w.last
    /\ registered' = w.registered
    /\ overridden' = w.overridden

\* -------------------------------------------------------------- one run ----
Init ==
    /\ bodies = InitWorld.bodies
    /\ rand = new.rand
    /\ rb2sn = new.rb2sn
    /\ obj2color = new.obj2color
    /\ last = NoCall
    /\ registered = {}
    /\ overridden = InitWorld.overridden
    /\ twin = InitWorld

NewBody ==
    \E b \in BodyIds, k \in BodyKinds, addr \in Addrs :
        /\ CanNewBody(World, b, addr)
        /\ Commit(StepNewBody(World, b, k, addr))
        /\ UNCHANGED twin

DropBody ==
    \E b \in BodyIds :
        CanCall(World, b) /\ Commit(StepDropBody(World, b)) /\ UNCHANGED twin

Add ==
    \E b \in BodyIds :
        CanCall(World, b) /\ Commit(StepAdd(World, b)) /\ UNCHANGED twin

Clear == ~Halted(World) /\ Commit(StepClear(World)) /\ UNCHANGED twin

Draw ==
    \E order \in Perms(DOMAIN rb2sn) :
        ~Halted(World) /\ Commit(StepDraw(World, order)) /\ UNCHANGED twin

SetColor ==
    \E b \in BodyIds, color \in Palette :
        CanCall(World, b) /\ Commit(StepSetColor(World, b, color)) /\ UNCHANGED twin

ColorForObject ==
    \E b \in BodyIds :
        CanCall(World, b) /\ Commit(StepColorForObject(World, b)) /\ UNCHANGED twin

Lookup ==
    \E b \in BodyIds :
        CanCall(World, b) /\ Commit(StepLookup(World, b)) /\ UNCHANGED twin

Next ==
    \/ NewBody
    \/ DropBody
    \/ Add
    \/ Clear
    \/ Draw
    \/ SetColor
    \/ ColorForObject
    \/ Lookup

Spec == Init /\ [][Next]_vars

\* ------------------------------------------------- classification runs ----
\* One body of any generated shape, registered with a fresh manager.
InitClassify ==
    /\ \E g \in GenShapes, m \in 0..MaxMargin :
          bodies = [b \in BodyIds |->
                       IF b = 1
                       THEN [st |-> "live", addr |-> 1, geom |-> g, margin |-> m,
                             ext |-> TRUE]
                       ELSE Unborn]
    /\ rand = new.rand
    /\ rb2sn = new.rb2sn
    /\ obj2color = new.obj2color
    /\ last = NoCall
    /\ registered = {}
    /\ overridden = InitWorld.overridden
    /\ twin = InitWorld

NextClassify ==
    \/ Add
    \/ Lookup

SpecClassify == InitClassify /\ [][NextClassify]_vars

\* ------------------------------------------------------------ two runs ----
\* Two independently constructed managers, each with bodies of its own, are
\* given the same calls for the same bodies.  The allocator of each run
\* places the bodies, and each HashMap iterates in an order of its own.
PairNewBody ==
    \E b \in BodyIds, k \in BodyKinds, a1 \in Addrs, a2 \in Addrs :
        /\ CanNewBody(World, b, a1) /\ CanNewBody(twin, b, a2)
        /\ Commit(StepNewBody(World, b, k, a1))
        /\ twin' = StepNewBody(twin, b, k, a2)

PairDropBody ==
    \E b \in BodyIds :
        /\ CanCall(World, b) /\ CanCall(twin, b)
        /\ Commit(StepDropBody(World, b))
        /\ twin' = StepDropBody(twin, b)

PairAdd ==
    \E b \in BodyIds :
        /\ CanCall(World, b) /\ CanCall(twin, b)
        /\ Commit(StepAdd(World, b))
        /\ twin' = StepAdd(twin, b)

PairClear ==
    /\ ~Halted(World) /\ ~Halted(twin)
    /\ Commit(StepClear(World))
    /\ twin' = StepClear(twin)

PairDraw ==
    \E o1 \in Perms(DOMAIN rb2sn), o2 \in Perms(DOMAIN twin.gm.rb2sn) :
        /\ ~Halted(World) /\ ~Halted(twin)
        /\ Commit(StepDraw(World, o1))
        /\ twin' = StepDraw(twin, o2)

PairSetColor ==
    \E b \in BodyIds, color \in Palette :
        /\ CanCall(World, b) /\ CanCall(twin, b)
        /\ Commit(StepSetColor(World, b, color))
        /\ twin' = StepSetColor(twin, b, color)

PairColorForObject ==
    \E b \in BodyIds :
        /\ CanCall(World, b) /\ CanCall(twin, b)
        /\ Commit(StepColorForObject(World, b))
        /\ twin' = StepColorForObject(twin, b)

NextPair ==
    \/ PairNewBody
    \/ PairDropBody
    \/ PairAdd
    \/ PairClear
    \/ PairDraw
    \/ PairSetColor
    \/ PairColorForObject

SpecPair == Init /\ [][NextPair]_vars

\* ------------------------------------------------------ reshaped bodies ----
\* add reads the shape and the margin through the RefCell at every call
\* (body.borrow(), rb.geom_ref(), margin()), so what it reads for one body can
\* differ from one add to the next.
ReshapeKinds ==
    BodyKinds \cup
    {[geom |-> Compound2(<<>>), margin |-> 0],
     [geom |-> Compound2(<< <<T1, Plane2>>,
                            <<T2, Compound2(<< <<T1, Plane2>> >>)>> >>), margin |-> 1]}

StepReshape(w, b, k) ==
    [w EXCEPT !.bodies[b].geom = k.geom, !.bodies[b].margin = k.margin,
              !.last = Call("reshape", b)]

Reshape ==
    \E b \in BodyIds, k \in ReshapeKinds :
        /\ CanCall(World, b)
        /\ k.geom # bodies[b].geom
        /\ Commit(StepReshape(World, b, k))
        /\ UNCHANGED twin

NextReshape ==
    \/ NewBody
    \/ Reshape
    \/ Add
    \/ Lookup

SpecReshape == Init /\ [][NextReshape]_vars

\* ================================================================ claims ====
\* The shape tree read without the manager: the paths (child indices from
\* the root) to the shapes that are not compounds.
RECURSIVE Paths(_)
Paths(g) ==
    IF g.kind = "Compound2"
    THEN UNION {{<<i>> \o p : p \in Paths(g.geoms[i][2])} : i \in 1..Len(g.geoms)}
    ELSE {<<>>}

RECURSIVE ShapeAt(_, _)
ShapeAt(g, p) == IF p = <<>> THEN g ELSE ShapeAt(g.geoms[p[1]][2], Tail(p))

\* t1 * (t2 * (... * tn)) for the local transforms t1..tn from the root down.
RECURSIVE DeltaAt(_, _)
DeltaAt(g, p) ==
    IF p = <<>> THEN One
    ELSE IsoMul(g.geoms[p[1]][1], DeltaAt(g.geoms[p[1]][2], Tail(p)))

\* p is to the left of q in the tree.
RECURSIVE Before(_, _)
Before(p, q) ==
    IF p = <<>> \/ q = <<>> THEN FALSE
    ELSE p[1] < q[1] \/ (p[1] = q[1] /\ Before(Tail(p), Tail(q)))

ViewKind(g) ==
    CASE g.kind = "Ball2"   -> "BallNode"
      [] g.kind = "Cuboid2" -> "BoxNode"
      [] g.kind = "Mesh2"   -> "LinesNode"

ViewDims(g, margin) ==
    CASE g.kind = "Ball2"   -> <<g.radius + margin>>
      [] g.kind = "Cuboid2" -> <<g.x + margin, g.y + margin>>
      [] g.kind = "Mesh2"   -> <<g.vertices, g.indices>>

VisiblePaths(g) == {p \in Paths(g) : ShapeAt(g, p).kind \in {"Ball2", "Cuboid2", "Mesh2"}}
Rank(g, p)      == 1 + Cardinality({q \in VisiblePaths(g) : Before(q, p)})
PathOfRank(g, i) == CHOOSE p \in VisiblePaths(g) : Rank(g, p) = i

HasUnsupported(g) ==
    \E p \in Paths(g) : ShapeAt(g, p).kind \notin {"Plane2", "Ball2", "Cuboid2", "Mesh2"}

\* The node list of body b by the tree: one node per visible leaf, left to right.
LeafNodes(b, g, margin, color) ==
    [i \in 1..Cardinality(VisiblePaths(g)) |->
        LET p == PathOfRank(g, i)
        IN  [kind |-> ViewKind(ShapeAt(g, p)), body |-> b, delta |-> DeltaAt(g, p),
             dims |-> ViewDims(ShapeAt(g, p), margin), color |-> color]]

Shape(ns) == [i \in 1..Len(ns) |-> [kind |-> ns[i].kind, delta |-> ns[i].delta]]

ColorAt(cache, k) == IF k \in DOMAIN cache THEN cache[k] ELSE <<0, 0, 0>>
KeyOf(b)  == bodies[b].addr
Entry(b)  == rb2sn[KeyOf(b)]
IsCall(l, op, b) == l.op = op /\ l.b = b

\* C1: an add of body b that completes leaves under b's key exactly the list of
\* that add (never the old list extended), the entry then stays as it is
\* until the next add of b or a clear, and lookup returns that entry.
C1_Step ==
    \A b \in BodyIds :
        /\ (IsCall(last', "add", b) /\ last'.ok) =>
              /\ KeyOf(b) \in DOMAIN rb2sn'
              /\ rb2sn'[KeyOf(b)] =
                     LeafNodes(b, bodies[b].geom, bodies[b].margin,
                               ColorAt(obj2color', KeyOf(b)))
        /\ (/\ Live(bodies, b) /\ Live(bodies', b)
            /\ KeyOf(b) \in DOMAIN rb2sn
            /\ ~IsCall(last', "add", b)
            /\ last'.op # "clear") =>
              /\ KeyOf(b) \in DOMAIN rb2sn'
              /\ rb2sn'[KeyOf(b)] = Entry(b)
        /\ (IsCall(last', "body_to_scene_node", b) /\ KeyOf(b) \in DOMAIN rb2sn) =>
              last'.nodes = Some(Entry(b))

C1_ReRegistrationReplaces == [][C1_Step]_vars

\* a second add of a body, after its color was overridden, has completed
C1_Witness ==
    /\ last.op = "add" /\ last.ok /\ last.again
    /\ Len(Entry(last.b)) = 2
    /\ Entry(last.b)[1].color \in Palette

\* C2: for a tree of Plane, Ball, Box, Mesh and Compound shapes, add stores one
\* node per leaf that is not a Plane, flat and left to right, each at the
\* product of the local transforms of its Compound ancestors from the root
\* down; Compound{(identity, Ball), (T, Box)} gives [Ball at identity, Box at T].
C2_Classification ==
    (last.op = "add" /\ ~HasUnsupported(bodies[last.b].geom)) =>
        LET g == bodies[last.b].geom IN
        /\ last.ok
        /\ Len(Entry(last.b)) =
               Cardinality({p \in Paths(g) : ShapeAt(g, p).kind # "Plane2"})
        /\ Shape(Entry(last.b)) = Shape(LeafNodes(last.b, g, 0, <<0, 0, 0>>))
        /\ g = Pair =>
               Shape(Entry(last.b)) = <<[kind |-> "BallNode", delta |-> One],
                                        [kind |-> "BoxNode", delta |-> T1]>>

\* a nested compound with a Plane leaf was flattened, one node at a true product
C2_Witness ==
    /\ last.op = "add" /\ last.ok
    /\ \E p \in Paths(bodies[last.b].geom) :
           Len(p) = 2 /\ ShapeAt(bodies[last.b].geom, p).kind = "Plane2"
    /\ Len(Entry(last.b)) >= 3
    /\ \E i \in 1..Len(Entry(last.b)) : Entry(last.b)[i].delta \notin Transforms

\* C3: add panics whenever the tree holds, at any depth, a shape that is not a
\* Plane, Ball, Box, Compound or Mesh (Cylinder and Cone among them), and then
\* stores no entry.
C3_UnsupportedAborts ==
    (last.op = "add" /\ HasUnsupported(bodies[last.b].geom)) =>
        ~last.ok /\ KeyOf(last.b) \notin DOMAIN rb2sn

\* an add met a Cone two levels down, after a leaf that was given a color
C3_Witness ==
    /\ last.op = "add" /\ ~last.ok
    /\ obj2color # <<>>
    /\ \E p \in Paths(bodies[last.b].geom) :
           Len(p) = 2 /\ ShapeAt(bodies[last.b].geom, p).kind = "Cone2"

\* C4: a live body that has a color keeps it through every call that is not a
\* set_color for that body, and color_for_object returns that color.
C4_Step ==
    \A b \in BodyIds :
        (/\ Live(bodies, b) /\ Live(bodies', b)
         /\ KeyOf(b) \in DOMAIN obj2color
         /\ ~IsCall(last', "set_color", b)) =>
            /\ KeyOf(b) \in DOMAIN obj2color'
            /\ obj2color'[KeyOf(b)] = obj2color[KeyOf(b)]
            /\ IsCall(last', "color_for_object", b) =>
                   last'.color = Some(obj2color[KeyOf(b)])

C4_ColorStable == [][C4_Step]_vars

\* a repeated color_for_object returned a generated color while two keys are cached
C4_Witness ==
    /\ last.op = "color_for_object" /\ last.hit
    /\ last.color[1] \notin Palette
    /\ Cardinality(DOMAIN obj2color) = 2

\* C6: set_color stores its color without advancing the generator, and from
\* then on color_for_object returns the color of the latest set_color of the
\* body, registered or not.
C6_Step ==
    \A b \in BodyIds :
        /\ IsCall(last', "set_color", b) =>
              /\ rand' = rand
              /\ obj2color'[KeyOf(b)] = last'.color[1]
        /\ (IsCall(last', "color_for_object", b) /\ overridden[b] # None) =>
              last'.color = overridden[b]

C6_SetThenGet == [][C6_Step]_vars

\* color_for_object returned the override of a body that was never registered,
\* after the generator had been used
C6_Witness ==
    /\ last.op = "color_for_object"
    /\ overridden[last.b] # None /\ last.color = overridden[last.b]
    /\ last.b \notin registered
    /\ rand # from_seed

\* C7: in every draw, activate_scene comes first and activate_ui last, each
\* once, and no draw() of a node precedes an update() of any node.
C7_DrawOrder ==
    last.op = "draw" =>
        LET e == last.events IN
        /\ Len(e) >= 2
        /\ e[1].ev = "activate_scene"
        /\ e[Len(e)].ev = "activate_ui"
        /\ \A i \in 2..(Len(e) - 1) : e[i].ev \in {"update", "draw"}
        /\ \A i, j \in 1..Len(e) : (e[i].ev = "draw" /\ e[j].ev = "update") => j < i

\* a frame over two registered bodies, one of them with two nodes
C7_Witness ==
    /\ last.op = "draw"
    /\ Cardinality(DOMAIN rb2sn) = 2
    /\ \E k \in DOMAIN rb2sn : Len(rb2sn[k]) = 2
    /\ \A k \in DOMAIN rb2sn : Len(rb2sn[k]) > 0

EventsOf(e, what, k, j) ==
    {i \in 1..Len(e) : e[i].ev = what /\ e[i].key = k /\ e[i].idx = j}

\* C8: a draw calls update() once and draw() once on every node of the
\* registry and on nothing else, in the order of each body's list; with an
\* empty registry it makes the two camera calls only.
C8_DrawCoversRegistry ==
    last.op = "draw" =>
        LET e     == last.events
            total == Cardinality(UNION {{<<k, j>> : j \in 1..Len(rb2sn[k])} :
                                           k \in DOMAIN rb2sn})
        IN
        /\ Len(e) = 2 + 2 * total
        /\ \A k \in DOMAIN rb2sn : \A j \in 1..Len(rb2sn[k]) :
              \A what \in {"update", "draw"} :
                 /\ Cardinality(EventsOf(e, what, k, j)) = 1
                 /\ \A i \in EventsOf(e, what, k, j) : e[i].node = rb2sn[k][j]
                 /\ j > 1 => \A i \in EventsOf(e, what, k, j) :
                                 \A h \in EventsOf(e, what, k, j - 1) : h < i
        /\ rb2sn = <<>> => e = <<[ev |-> "activate_scene"], [ev |-> "activate_ui"]>>

\* a frame over the two nodes of a body added after its color was overridden
C8_Witness ==
    /\ last.op = "draw"
    /\ Len(last.events) = 2 + 2 * 2
    /\ registered # {}
    /\ \E i \in 1..Len(last.events) :
           last.events[i].ev = "update" /\ last.events[i].node.color \in Palette

\* a frame over a registry emptied by clear
C8_WitnessEmpty ==
    last.op = "draw" /\ rb2sn = <<>> /\ registered # {}

\* C9 as claimed: lookup returns absent for a body that was never registered,
\* and the body's node list for a registered body with an entry.
C9_LookupAbsentUnlessRegistered ==
    last.op = "body_to_scene_node" =>
        /\ last.b \notin registered => last.nodes = None
        /\ (last.b \in registered /\ KeyOf(last.b) \in DOMAIN rb2sn) =>
               last.nodes = Some(Entry(last.b))

\* C10: clear empties the registry in one step; a live body without an entry
\* stays without one until an add of that body completes, and lookup of it
\* returns absent.
C10_Step ==
    /\ last'.op = "clear" => rb2sn' = <<>>
    /\ \A b \in BodyIds :
          /\ (/\ Live(bodies, b) /\ Live(bodies', b)
              /\ KeyOf(b) \notin DOMAIN rb2sn
              /\ ~(IsCall(last', "add", b) /\ last'.ok)) =>
                 KeyOf(b) \notin DOMAIN rb2sn'
          /\ (IsCall(last', "body_to_scene_node", b) /\ KeyOf(b) \notin DOMAIN rb2sn) =>
                 last'.nodes = None

C10_ClearDropsAll == [][C10_Step]_vars

\* a clear emptied a registry that held the entries of two bodies still live
C10_Witness ==
    /\ last.op = "clear"
    /\ Cardinality(registered) = 2
    /\ rb2sn = <<>>

\* The colors a run holds for body b: the cached color of its key and the
\* colors of the nodes stored under its key.
ColorsOf(w, b) ==
    LET k == w.bodies[b].addr IN
    [cached |-> IF k \in DOMAIN w.gm.obj2color THEN Some(w.gm.obj2color[k]) ELSE None,
     nodes  |-> IF k \in DOMAIN w.gm.rb2sn
                THEN [i \in 1..Len(w.gm.rb2sn[k]) |-> w.gm.rb2sn[k][i].color]
                ELSE <<>>]

\* C5 as claimed: two runs given the same calls return the same colors and
\* hold the same colors for every live body after every call.
C5_RunsAgree ==
    /\ last.color = twin.last.color
    /\ \A b \in BodyIds :
          Live(bodies, b) => (Live(twin.bodies, b) /\ ColorsOf(World, b) = ColorsOf(twin, b))

\* C11: the dimensions of every node are those of its leaf plus the margin of
\* the body: a Ball of radius r gives one Ball node of radius r + m, a Box of
\* half-extents (x, y) one Box node of (x + m, y + m), and every leaf of a
\* compound gets the same m.
C11_MarginInflates ==
    (last.op = "add" /\ last.ok) =>
        LET g  == bodies[last.b].geom
            m  == bodies[last.b].margin
            ns == Entry(last.b)
        IN
        /\ \A i \in 1..Len(ns) :
              ns[i].dims = ViewDims(ShapeAt(g, PathOfRank(g, i)), m)
        /\ g.kind = "Ball2" =>
              ns = <<[kind |-> "BallNode", body |-> last.b, delta |-> One,
                      dims |-> <<g.radius + m>>, color |-> ns[1].color]>>
        /\ g.kind = "Cuboid2" =>
              ns = <<[kind |-> "BoxNode", body |-> last.b, delta |-> One,
                      dims |-> <<g.x + m, g.y + m>>, color |-> ns[1].color]>>

\* a compound of a Ball and a Box was added for a body with a margin
C11_Witness ==
    /\ last.op = "add" /\ last.ok
    /\ bodies[last.b].margin > 0
    /\ Len(Entry(last.b)) = 2
    /\ Entry(last.b)[1].kind = "BallNode" /\ Entry(last.b)[1].dims = <<1 + bodies[last.b].margin>>
    /\ Entry(last.b)[2].kind = "BoxNode"

\* a Ball alone was added for a body with a margin
C11_WitnessBall ==
    /\ last.op = "add" /\ last.ok
    /\ bodies[last.b].margin > 0
    /\ bodies[last.b].geom.kind = "Ball2"

\* C12: after every call, all nodes of one registry entry carry one color, and
\* the nodes an add stores carry the color the cache holds for the body in
\* that add: the color cached before the add if there was one, and the color
\* cached by the add otherwise.
C12_Step ==
    /\ \A k \in DOMAIN rb2sn' : \A i \in 1..Len(rb2sn'[k]) :
          rb2sn'[k][i].color = rb2sn'[k][1].color
    /\ \A b \in BodyIds :
          (IsCall(last', "add", b) /\ last'.ok) =>
              \A i \in 1..Len(rb2sn'[KeyOf(b)]) :
                 /\ KeyOf(b) \in DOMAIN obj2color'
                 /\ rb2sn'[KeyOf(b)][i].color = obj2color'[KeyOf(b)]
                 /\ KeyOf(b) \in DOMAIN obj2color =>
                        rb2sn'[KeyOf(b)][i].color = obj2color[KeyOf(b)]

C12_OneColorPerBody == [][C12_Step]_vars

\* the two nodes of a compound were given the color generated in their add,
\* while another key holds a different color
C12_Witness ==
    /\ last.op = "add" /\ last.ok
    /\ Len(Entry(last.b)) = 2
    /\ Entry(last.b)[2].color \notin Palette
    /\ \E k \in DOMAIN obj2color : obj2color[k] # Entry(last.b)[2].color

\* C13: every node stored under a key references a live body whose address is
\* that key; a body with a node in the registry is not freed.
C13_NodesHoldLiveBody ==
    \A k \in DOMAIN rb2sn : \A i \in 1..Len(rb2sn[k]) :
        /\ Live(bodies, rb2sn[k][i].body)
        /\ bodies[rb2sn[k][i].body].addr = k

\* the caller dropped a body that the nodes of the registry keep alive
C13_Witness ==
    \E b \in BodyIds :
        /\ Live(bodies, b) /\ ~bodies[b].ext
        /\ Len(rb2sn[bodies[b].addr]) = 2
        /\ last.op = "drop_body" /\ last.b = b

\* The stream of XorShiftRng seeded with [0, 1, 2, 3], computed apart from the
\* model: the k-th triple of gen_range(0u, 256) and the generator before it.
StreamColors == << <<10, 3, 74>>, <<137, 75, 8>> >>
StreamStates ==
    << [x |-> <<0, 0>>, y |-> <<0, 1>>, z |-> <<0, 2>>, w |-> <<0, 3>>],
       [x |-> <<0, 6168>>, y |-> <<0, 3>>, z |-> <<0, 6168>>, w |-> <<64, 74>>],
       [x |-> <<64, 6233>>, y |-> <<2, 2635>>, z |-> <<70, 18113>>,
        w |-> <<194, 35336>>] >>

\* The call made in this step missed the color cache for body b.
Missed(b) ==
    /\ IsCall(last', "color_for_object", b) \/ IsCall(last', "add", b)
    /\ KeyOf(b) \notin DOMAIN obj2color
    /\ KeyOf(b) \in DOMAIN obj2color'

\* C14: the generator moves only in a call that misses the color cache; the
\* k-th miss moves it from the state after k - 1 triples to the state after k
\* triples and caches the k-th triple, whatever the number of leaves.  A
\* color_for_object for an uncached body is a miss; an add of a body that is
\* cached or has no leaf to show, set_color, clear, draw and lookup are not.
C14_Step ==
    /\ rand' # rand => \E b \in BodyIds : Missed(b)
    /\ \A b \in BodyIds :
          /\ Missed(b) =>
                \E k \in 1..Len(StreamColors) :
                    /\ rand = StreamStates[k]
                    /\ rand' = StreamStates[k + 1]
                    /\ obj2color'[KeyOf(b)] = StreamColors[k]
          /\ (IsCall(last', "color_for_object", b) /\ KeyOf(b) \notin DOMAIN obj2color) =>
                Missed(b)
          /\ (/\ IsCall(last', "add", b)
              /\ \/ KeyOf(b) \in DOMAIN obj2color
                 \/ VisiblePaths(bodies[b].geom) = {}) =>
                rand' = rand
    /\ last'.op \in {"set_color", "clear", "draw", "body_to_scene_node",
                     "new_body", "drop_body"} => rand' = rand

C14_ThreeDrawsPerMiss == [][C14_Step]_vars

\* the second body to miss the cache, a compound of two leaves, was given the
\* second triple
C14_Witness ==
    /\ last.op = "add" /\ last.ok
    /\ Len(Entry(last.b)) = 2
    /\ Entry(last.b)[1].color = StreamColors[2]
    /\ rand = StreamStates[3]

\* C15: an add that panics leaves the registry as it was before the call (no
\* new entry, the entry under the body's key and the entries of the other
\* bodies as they were) and leaves the bodies alone; it changes at most the
\* color cache, by the one color of the body, and the generator.
C15_Step ==
    \A b \in BodyIds :
        (IsCall(last', "add", b) /\ ~last'.ok) =>
            /\ rb2sn' = rb2sn
            /\ bodies' = bodies
            /\ \/ obj2color' = obj2color /\ rand' = rand
               \/ /\ KeyOf(b) \notin DOMAIN obj2color
                  /\ DOMAIN obj2color' = DOMAIN obj2color \cup {KeyOf(b)}
                  /\ \A k \in DOMAIN obj2color : obj2color'[k] = obj2color[k]

C15_AbortKeepsRegistry == [][C15_Step]_vars

\* an add panicked after it gave the body a color for an earlier leaf, while
\* the registry holds the nodes of another body
C15_Witness ==
    /\ last.op = "add" /\ ~last.ok
    /\ KeyOf(last.b) \in DOMAIN obj2color
    /\ KeyOf(last.b) \notin DOMAIN rb2sn
    /\ \E k \in DOMAIN rb2sn : Len(rb2sn[k]) = 2

\* an add panicked while an entry is stored under the body's key
C15_WitnessEntry ==
    /\ last.op = "add" /\ ~last.ok
    /\ KeyOf(last.b) \in DOMAIN rb2sn

\* C16: an add of a body whose tree has no leaf to show (a Plane, an empty
\* Compound, Compounds of Planes) completes and stores an empty list under the
\* body's key, whatever was stored there, without giving the body a color or
\* moving the generator; lookup of an empty entry returns Some(empty), not None.
C16_Step ==
    \A b \in BodyIds :
        /\ (/\ IsCall(last', "add", b)
            /\ VisiblePaths(bodies[b].geom) = {}
            /\ ~HasUnsupported(bodies[b].geom)) =>
              /\ last'.ok
              /\ KeyOf(b) \in DOMAIN rb2sn'
              /\ rb2sn'[KeyOf(b)] = <<>>
              /\ obj2color' = obj2color
              /\ rand' = rand
        /\ (/\ IsCall(last', "body_to_scene_node", b)
            /\ KeyOf(b) \in DOMAIN rb2sn
            /\ Entry(b) = <<>>) =>
              last'.nodes = Some(<<>>) /\ last'.nodes # None

C16_EmptyEntry == [][C16_Step]_vars

\* the only body of the run, added before with leaves that gave it a color,
\* was added again with Compounds of Planes only, and its entry is now empty
C16_Witness ==
    /\ last.op = "add" /\ last.ok /\ last.again
    /\ bodies[last.b].geom.kind = "Compound2"
    /\ Entry(last.b) = <<>>
    /\ KeyOf(last.b) \in DOMAIN obj2color
    /\ \A c \in BodyIds : c # last.b => bodies[c] = Unborn

\* lookup returned the empty list of a body added as a Plane
C16_WitnessLookup ==
    /\ last.op = "body_to_scene_node"
    /\ last.nodes = Some(<<>>)
    /\ last.b \in registered

\* C17: set_color writes the color of the one key into the cache and nothing
\* else: registry and generator stay as they are, so the nodes keep the color
\* they were created with; an add of the body that completes afterwards gives
\* every node the color of the override.
C17_Step ==
    \A b \in BodyIds :
        /\ IsCall(last', "set_color", b) =>
              /\ rb2sn' = rb2sn
              /\ rand' = rand
              /\ bodies' = bodies
              /\ DOMAIN obj2color' = DOMAIN obj2color \cup {KeyOf(b)}
              /\ \A k \in DOMAIN obj2color' :
                    obj2color'[k] = IF k = KeyOf(b) THEN last'.color[1] ELSE obj2color[k]
        /\ (IsCall(last', "add", b) /\ last'.ok /\ overridden[b] # None) =>
              \A i \in 1..Len(rb2sn'[KeyOf(b)]) :
                  rb2sn'[KeyOf(b)][i].color = overridden[b][1]

C17_SetColorOnlyCache == [][C17_Step]_vars

\* set_color overrode the color of a body whose two nodes carry another color
C17_Witness ==
    /\ last.op = "set_color"
    /\ KeyOf(last.b) \in DOMAIN rb2sn
    /\ Len(Entry(last.b)) = 2
    /\ Entry(last.b)[1].color # last.color[1]
    /\ obj2color[KeyOf(last.b)] = last.color[1]

\* after the override the body was added again and its nodes carry the override
C17_WitnessReAdd ==
    /\ last.op = "add" /\ last.ok /\ last.again
    /\ overridden[last.b] # None
    /\ Len(Entry(last.b)) = 2
    /\ Entry(last.b)[2].color = overridden[last.b][1]
    /\ rand # from_seed

\* C18: clear and draw leave the color cache and the generator as they are;
\* draw also leaves the bodies and the registry as they are (keys, lists, and
\* the body, transform and color of every node); a body added again after a
\* clear dropped its entry gets the color the cache has kept for it.
C18_Step ==
    /\ last'.op \in {"clear", "draw"} => (obj2color' = obj2color /\ rand' = rand)
    /\ last'.op = "draw" => (rb2sn' = rb2sn /\ bodies' = bodies)
    /\ \A b \in BodyIds :
          (/\ IsCall(last', "add", b) /\ last'.ok
           /\ b \in registered
           /\ KeyOf(b) \notin DOMAIN rb2sn
           /\ KeyOf(b) \in DOMAIN obj2color) =>
              /\ obj2color' = obj2color
              /\ \A i \in 1..Len(rb2sn'[KeyOf(b)]) :
                    rb2sn'[KeyOf(b)][i].color = obj2color[KeyOf(b)]

C18_ClearDrawKeepColors == [][C18_Step]_vars

\* a clear dropped the entry of a body that keeps its generated color in the
\* cache, after the generator was used
C18_Witness ==
    /\ last.op = "clear"
    /\ Cardinality(registered) = 1
    /\ \E b \in registered :
          /\ KeyOf(b) \in DOMAIN obj2color
          /\ obj2color[KeyOf(b)] = StreamColors[1]
    /\ rand = StreamStates[2]

\* a frame was drawn over two nodes of a generated color
C18_WitnessDraw ==
    /\ last.op = "draw"
    /\ \E k \in DOMAIN rb2sn : Len(rb2sn[k]) = 2 /\ rb2sn[k][1].color \notin Palette
    /\ rand # from_seed

\* C19: a body created at the address of a freed body is taken for that body
\* by the first call made for it: color_for_object returns the color cached
\* under the address and add gives it to every node, both without moving the
\* generator, and lookup returns the entry stored under the address, if any.
C19_Step ==
    \A b \in BodyIds :
        (IsCall(last, "new_body", b) /\ Live(bodies, b)) =>
            /\ (IsCall(last', "color_for_object", b) /\ KeyOf(b) \in DOMAIN obj2color) =>
                  /\ last'.color = Some(obj2color[KeyOf(b)])
                  /\ rand' = rand /\ obj2color' = obj2color
            /\ (IsCall(last', "add", b) /\ last'.ok /\ KeyOf(b) \in DOMAIN obj2color) =>
                  /\ rand' = rand /\ obj2color' = obj2color
                  /\ \A i \in 1..Len(rb2sn'[KeyOf(b)]) :
                        rb2sn'[KeyOf(b)][i].color = obj2color[KeyOf(b)]
            /\ IsCall(last', "body_to_scene_node", b) =>
                  last'.nodes = IF KeyOf(b) \in DOMAIN rb2sn
                                THEN Some(rb2sn[KeyOf(b)]) ELSE None

C19_TokenReuseUnguarded == [][C19_Step]_vars

\* color_for_object returned, for a body never given a color, the override of
\* a freed body, with the generator unused
C19_Witness ==
    /\ last.op = "color_for_object" /\ last.hit
    /\ overridden[last.b] = None
    /\ last.color[1] \in Palette
    /\ rand = from_seed
    /\ \E a \in BodyIds : bodies[a] = Freed

\* the two nodes of a body never given a color carry the override of a freed body
C19_WitnessAdd ==
    /\ last.op = "add" /\ last.ok /\ ~last.again
    /\ overridden[last.b] = None
    /\ Len(Entry(last.b)) = 2
    /\ Entry(last.b)[1].color \in Palette
    /\ rand = from_seed

\* lookup returned the entry of a freed body for a body that was never added
C19_WitnessLookup ==
    /\ last.op = "body_to_scene_node"
    /\ last.b \notin registered
    /\ last.nodes = Some(<<>>)

====
